---- MODULE Spec2Model ----
(***************************************************************************)
(* A model of src/src/main.cpp: the four SDL3 main callbacks SDL_AppInit,  *)
(* SDL_AppEvent, SDL_AppIterate and SDL_AppQuit, the AppContext they       *)
(* share, and the run loop that SDL_MAIN_USE_CALLBACKS puts around them.   *)
(*                                                                         *)
(* The SDL, SDL_ttf and SDL_image calls are the environment.  Each         *)
(* fallible call may succeed or fail; a handle is a name, NULL when the    *)
(* call failed.  The handle ledger (acquired, relCount) records what the   *)
(* calls made by main.cpp acquire and release, following the documented    *)
(* contract of each call (SDL_DestroyRenderer frees the renderer's         *)
(* textures; SDL_DestroySurface(NULL) does nothing).                       *)
(***************************************************************************)
EXTENDS Integers, Sequences, FiniteSets

(***************************************************************************)
(* Bounds of the model.                                                    *)
(***************************************************************************)
\* SDL_GetTicks() is followed up to this many milliseconds.
MaxTicks == 3000
\* The same, in the runs checked under fairness.
FairMaxTicks == 500
\* Width in pixels of the render target (one row of pixels is modelled).
TargetW == 3

\* The widths in pixels the rasterized text may have.
TextWidths == {1, 2}
\* The widths in pixels the decoded image may have; it is stretched over the target.
ImageWidths == {2}

\* The amounts by which the clock advances between two steps.
TickSteps == {250, 500, 1250}

(***************************************************************************)
(* Program constants.                                                      *)
(***************************************************************************)
\* main.cpp:168, SDL_GetTicks() / 1000.f
TicksPerSecond == 1000

\* A null handle.
NULL == "NULL"
\* A pointer to a structure: null, or pointing at a value.
NullPtr == <<>>
Ptr(x) == <<x>>
Deref(p) == p[1]
SDL_APP_CONTINUE == "SDL_APP_CONTINUE"
SDL_APP_SUCCESS == "SDL_APP_SUCCESS"
SDL_APP_FAILURE == "SDL_APP_FAILURE"
NoResult == "none"

Handles ==
    {"window", "renderer", "font", "surfaceMessage", "messageTex",
     "svg_surface", "imageTex", "app"}

Textures == {"messageTex", "imageTex"}

\* The events SDL_AppEvent tells apart, and some it does not.
Events ==
    { [type |-> "SDL_EVENT_QUIT", key |-> "none"],
      [type |-> "SDL_EVENT_KEY_DOWN", key |-> "SDLK_ESCAPE"],
      [type |-> "SDL_EVENT_KEY_DOWN", key |-> "SDLK_A"],
      [type |-> "SDL_EVENT_KEY_UP", key |-> "SDLK_ESCAPE"],
      [type |-> "SDL_EVENT_KEY_UP", key |-> "SDLK_A"],
      [type |-> "SDL_EVENT_MOUSE_MOTION", key |-> "none"] }

NoEvent == [type |-> "none", key |-> "none"]

\* A quit-signal event or a key-down of Escape.
IsQuitRequest(e) ==
    \/ e.type = "SDL_EVENT_QUIT"
    \/ e.type = "SDL_EVENT_KEY_DOWN" /\ e.key = "SDLK_ESCAPE"

\* Opacity masks of a texture of width w: TRUE where the pixel is opaque.
Masks(w) == [1..w -> BOOLEAN]

VARIABLES
    pc,          \* where the run loop stands: an SDL_AppInit step, "loop", "quit", "exited"
    rc,          \* the result the run loop holds from the last callback
    appstate,    \* *appstate: NullPtr or a pointer to the AppContext
    locals,      \* SDL_AppInit's local handle variables
    acquired,    \* the handles the library has handed out
    relCount,    \* how often each handle was released
    subsys,      \* the initialized subsystems, among "SDL" and "TTF"
    ticks,       \* SDL_GetTicks(): milliseconds since SDL_Init
    cout,        \* the seconds written by the "time: " line, in order
    msgBoxes,    \* SDL_ShowSimpleMessageBox calls
    errLogs,     \* SDL_LogError calls
    texMask,     \* the opacity mask of each texture
    frame,       \* the renderer: draw calls of the last Iterate, backbuffer, presented pixels
    initResult,  \* what SDL_AppInit returned
    eventResult, \* what the last SDL_AppEvent returned
    iterResult,  \* what the last SDL_AppIterate returned
    quitCalls,   \* SDL_AppQuit invocations
    quitArg,     \* the state and result SDL_AppQuit was invoked with
    teardown,    \* the calls SDL_AppQuit made, in order
    exitCode,    \* the process's exit result
    failed,      \* the library calls that failed during SDL_AppInit
    quitSeen,    \* a quit request has been delivered to SDL_AppEvent
    lastEvent,   \* the last event delivered
    lastCall,    \* the last callback invoked
    sinceIter,   \* milliseconds since the last SDL_AppIterate (since start before the
                 \* first), TicksPerSecond + 1 standing for anything above a second
    paced        \* no SDL_AppIterate came more than a second after the one before

vars ==
    <<pc, rc, appstate, locals, acquired, relCount, subsys, ticks, cout,
      msgBoxes, errLogs, texMask, frame, initResult, eventResult, iterResult,
      quitCalls, quitArg, teardown, exitCode, failed, quitSeen, lastEvent,
      lastCall, sinceIter, paced>>

\* What only SDL_AppInit writes.
initVars == <<locals, msgBoxes, errLogs, texMask, initResult, failed>>
\* What only the loop callbacks write.
loopVars ==
    <<cout, frame, eventResult, iterResult, quitSeen, lastEvent, paced>>
\* What only SDL_AppQuit writes.
quitVars == <<quitCalls, quitArg, teardown, exitCode>>

NoFrame == [calls |-> <<>>, color |-> "black",
            back |-> [p \in 1..TargetW |-> "black"],
            front |-> [p \in 1..TargetW |-> "black"]]

Init ==
    /\ pc = "SDL_Init"
    /\ rc = NoResult
    /\ appstate = NullPtr
    /\ locals = [window |-> NULL, renderer |-> NULL, font |-> NULL,
                 surfaceMessage |-> NULL, messageTex |-> NULL,
                 svg_surface |-> NULL, tex |-> NULL]
    /\ acquired = {}
    /\ relCount = [h \in Handles |-> 0]
    /\ subsys = {}
    /\ ticks = 0
    /\ cout = <<>>
    /\ msgBoxes = 0
    /\ errLogs = 0
    /\ texMask = [t \in Textures |-> <<>>]
    /\ frame = NoFrame
    /\ initResult = NoResult
    /\ eventResult = NoResult
    /\ iterResult = NoResult
    /\ quitCalls = 0
    /\ quitArg = [state |-> NULL, result |-> NoResult]
    /\ teardown = <<>>
    /\ exitCode = NoResult
    /\ failed = {}
    /\ quitSeen = FALSE
    /\ lastEvent = NoEvent
    /\ lastCall = "none"
    /\ sinceIter = 0
    /\ paced = TRUE


(***************************************************************************)
(* The handle ledger.                                                      *)
(***************************************************************************)
\* A release call on handle h; a release of NULL does nothing.
Released(cnt, h) == IF h = NULL THEN cnt ELSE [cnt EXCEPT ![h] = @ + 1]

\* A successful acquisition stored in SDL_AppInit's local variable v.
Acquire(v, h) ==
    /\ locals' = [locals EXCEPT ![v] = h]
    /\ acquired' = acquired \cup {h}

(***************************************************************************)
(* The run loop SDL_MAIN_USE_CALLBACKS puts around the callbacks: it keeps *)
(* calling SDL_AppEvent and SDL_AppIterate while they return               *)
(* SDL_APP_CONTINUE, and calls SDL_AppQuit once a callback returns         *)
(* anything else.                                                          *)
(***************************************************************************)
RunLoopTakes(callback, result) ==
    /\ rc' = result
    /\ lastCall' = callback
    /\ pc' = IF result = SDL_APP_CONTINUE THEN "loop" ELSE "quit"

(***************************************************************************)
(* SDL_AppInit, one action per library call it checks or makes.            *)
(***************************************************************************)
\* SDL_Fail(): log the error; the caller returns SDL_APP_FAILURE.
SDL_Fail == errLogs' = errLogs + 1

\* return r; from SDL_AppInit.
InitReturn(r) ==
    /\ initResult' = r
    /\ RunLoopTakes("Init", r)

\* A checked call failed: an optional message box, then return SDL_Fail().
InitAbort(call, boxes) ==
    /\ failed' = failed \cup {call}
    /\ msgBoxes' = msgBoxes + boxes
    /\ SDL_Fail
    /\ InitReturn(SDL_APP_FAILURE)

\* SDL_AppInit goes on to its next call.
InitProceed(next) ==
    /\ pc' = next
    /\ UNCHANGED <<rc, lastCall, initResult, errLogs, msgBoxes>>

initRest == <<appstate, ticks, sinceIter, loopVars, quitVars>>

Init_SDL_Init ==
    /\ pc = "SDL_Init"
    /\ \E ok \in BOOLEAN :
         IF ok
         THEN /\ subsys' = subsys \cup {"SDL"}
              /\ InitProceed("TTF_Init")
              /\ UNCHANGED failed
         ELSE /\ InitAbort("SDL_Init", 1)
              /\ UNCHANGED subsys
    /\ UNCHANGED <<locals, acquired, relCount, texMask, initRest>>

Init_TTF_Init ==
    /\ pc = "TTF_Init"
    /\ \E ok \in BOOLEAN :
         IF ok
         THEN /\ subsys' = subsys \cup {"TTF"}
              /\ InitProceed("SDL_CreateWindow")
              /\ UNCHANGED failed
         ELSE /\ InitAbort("TTF_Init", 0)
              /\ UNCHANGED subsys
    /\ UNCHANGED <<locals, acquired, relCount, texMask, initRest>>

Init_CreateWindow ==
    /\ pc = "SDL_CreateWindow"
    /\ \E ok \in BOOLEAN :
         IF ok
         THEN /\ Acquire("window", "window")
              /\ InitProceed("SDL_CreateRenderer")
              /\ UNCHANGED failed
         ELSE /\ InitAbort("SDL_CreateWindow", 1)
              /\ UNCHANGED <<locals, acquired>>
    /\ UNCHANGED <<subsys, relCount, texMask, initRest>>

Init_CreateRenderer ==
    /\ pc = "SDL_CreateRenderer"
    /\ \E ok \in BOOLEAN :
         IF ok
         THEN /\ Acquire("renderer", "renderer")
              /\ InitProceed("SDL_GetBasePath")
              /\ UNCHANGED failed
         ELSE /\ InitAbort("SDL_CreateRenderer", 1)
              /\ UNCHANGED <<locals, acquired>>
    /\ UNCHANGED <<subsys, relCount, texMask, initRest>>

\* The build for platforms other than Android (the #else branch).
Init_GetBasePath ==
    /\ pc = "SDL_GetBasePath"
    /\ \E ok \in BOOLEAN :
         IF ok
         THEN /\ InitProceed("TTF_OpenFont")
              /\ UNCHANGED failed
         ELSE InitAbort("SDL_GetBasePath", 0)
    /\ UNCHANGED <<locals, acquired, subsys, relCount, texMask, initRest>>

Init_OpenFont ==
    /\ pc = "TTF_OpenFont"
    /\ \E ok \in BOOLEAN :
         IF ok
         THEN /\ Acquire("font", "font")
              /\ InitProceed("TTF_RenderText_Solid")
              /\ UNCHANGED failed
         ELSE /\ InitAbort("TTF_OpenFont", 0)
              /\ UNCHANGED <<locals, acquired>>
    /\ UNCHANGED <<subsys, relCount, texMask, initRest>>

\* The result of TTF_RenderText_Solid is not tested.
Init_RenderText ==
    /\ pc = "TTF_RenderText_Solid"
    /\ \E ok \in BOOLEAN :
         IF ok
         THEN /\ Acquire("surfaceMessage", "surfaceMessage")
              /\ UNCHANGED failed
         ELSE /\ failed' = failed \cup {"TTF_RenderText_Solid"}
              /\ UNCHANGED <<locals, acquired>>
    /\ InitProceed("MessageTexture")
    /\ UNCHANGED <<subsys, relCount, texMask, initRest>>

\* SDL_CreateTextureFromSurface(renderer, surfaceMessage), then
\* TTF_CloseFont(font) and SDL_DestroySurface(surfaceMessage).  A NULL
\* surface gives a NULL texture.
Init_MessageTexture ==
    /\ pc = "MessageTexture"
    /\ \/ /\ locals.surfaceMessage # NULL
          /\ \E w \in TextWidths : \E m \in Masks(w) :
                texMask' = [texMask EXCEPT !["messageTex"] = m]
          /\ Acquire("messageTex", "messageTex")
          /\ UNCHANGED failed
       \/ /\ failed' = failed \cup {"SDL_CreateTextureFromSurface(message)"}
          /\ UNCHANGED <<locals, acquired, texMask>>
    /\ relCount' = Released(Released(relCount, locals.font), locals.surfaceMessage)
    /\ InitProceed("IMG_Load")
    /\ UNCHANGED <<subsys, initRest>>

\* The result of IMG_Load is not tested.
Init_IMG_Load ==
    /\ pc = "IMG_Load"
    /\ \E ok \in BOOLEAN :
         IF ok
         THEN /\ Acquire("svg_surface", "svg_surface")
              /\ UNCHANGED failed
         ELSE /\ failed' = failed \cup {"IMG_Load"}
              /\ UNCHANGED <<locals, acquired>>
    /\ InitProceed("ImageTexture")
    /\ UNCHANGED <<subsys, relCount, texMask, initRest>>

\* SDL_CreateTextureFromSurface(renderer, svg_surface), then
\* SDL_DestroySurface(svg_surface).
Init_ImageTexture ==
    /\ pc = "ImageTexture"
    /\ \/ /\ locals.svg_surface # NULL
          /\ \E w \in ImageWidths : \E m \in Masks(w) :
                texMask' = [texMask EXCEPT !["imageTex"] = m]
          /\ Acquire("tex", "imageTex")
          /\ UNCHANGED failed
       \/ /\ failed' = failed \cup {"SDL_CreateTextureFromSurface(image)"}
          /\ UNCHANGED <<locals, acquired, texMask>>
    /\ relCount' = Released(relCount, locals.svg_surface)
    /\ InitProceed("Finish")
    /\ UNCHANGED <<subsys, initRest>>

\* The width and height properties of a texture; 0 for a NULL texture.
TextureW(t) == IF t = NULL THEN 0 ELSE Len(texMask[t])
TextureH(t) == IF t = NULL THEN 0 ELSE 1

\* The AppContext SDL_AppInit constructs; app_quit takes its default.
AppContext ==
    [window |-> locals.window,
     renderer |-> locals.renderer,
     messageTex |-> locals.messageTex,
     imageTex |-> locals.tex,
     messageDest |-> [x |-> 0, y |-> 0,
                      w |-> TextureW(locals.messageTex),
                      h |-> TextureH(locals.messageTex)],
     iteration |-> 0,
     app_quit |-> SDL_APP_CONTINUE]

\* The text rectangle, the window's size logs, *appstate = new AppContext,
\* vsync, and return SDL_APP_CONTINUE.
Init_Finish ==
    /\ pc = "Finish"
    /\ appstate' = Ptr(AppContext)
    /\ acquired' = acquired \cup {"app"}
    /\ InitReturn(SDL_APP_CONTINUE)
    /\ UNCHANGED <<locals, relCount, subsys, texMask, failed, msgBoxes, errLogs,
                   ticks, sinceIter, loopVars, quitVars>>

SDL_AppInit ==
    \/ Init_SDL_Init
    \/ Init_TTF_Init
    \/ Init_CreateWindow
    \/ Init_CreateRenderer
    \/ Init_GetBasePath
    \/ Init_OpenFont
    \/ Init_RenderText
    \/ Init_MessageTexture
    \/ Init_IMG_Load
    \/ Init_ImageTexture
    \/ Init_Finish


(***************************************************************************)
(* SDL_AppEvent.                                                           *)
(***************************************************************************)
\* Mutant: the flag follows the last event instead of latching.
AppEventState_Unlatched(app, e) ==
    [app EXCEPT !.app_quit =
        IF \/ e.type = "SDL_EVENT_QUIT"
           \/ e.type = "SDL_EVENT_KEY_DOWN" /\ e.key = "SDLK_ESCAPE"
        THEN SDL_APP_SUCCESS ELSE SDL_APP_CONTINUE]

\* Mutant: the Escape key is tested without the switch on the event's type.
AppEventState_AnyEscape(app, e) ==
    IF e.type = "SDL_EVENT_QUIT" \/ e.key = "SDLK_ESCAPE"
    THEN [app EXCEPT !.app_quit = SDL_APP_SUCCESS]
    ELSE app

\* The AppContext after SDL_AppEvent has looked at event e.
AppEventState(app, e) ==
    LET afterQuit ==
            IF e.type = "SDL_EVENT_QUIT"
            THEN [app EXCEPT !.app_quit = SDL_APP_SUCCESS]
            ELSE app
    IN  IF e.type = "SDL_EVENT_KEY_DOWN" /\ e.key = "SDLK_ESCAPE"
        THEN [afterQuit EXCEPT !.app_quit = SDL_APP_SUCCESS]
        ELSE afterQuit

\* return SDL_APP_CONTINUE; whatever the event.
AppEventReturn(app, e) == SDL_APP_CONTINUE

SDL_AppEvent(e) ==
    /\ appstate' = Ptr(AppEventState(Deref(appstate), e))
    /\ eventResult' = AppEventReturn(Deref(appstate), e)
    /\ quitSeen' = (quitSeen \/ IsQuitRequest(e))
    /\ lastEvent' = e
    /\ UNCHANGED <<cout, frame, iterResult, paced>>
    /\ UNCHANGED <<acquired, relCount, subsys, ticks, sinceIter, initVars, quitVars>>

(***************************************************************************)
(* SDL_AppIterate.                                                         *)
(***************************************************************************)
\* static_cast<int>(std::round(SDL_GetTicks() / 1000.f)): halves round up.
\* (The float quotient is exact enough for this below 2^14 seconds.)
RoundSeconds(t) == (2 * t + TicksPerSecond) \div (2 * TicksPerSecond)

\* Mutant: >= for >.
LogDue_AtLeast(seconds, iteration) == seconds >= iteration

\* if (seconds > app->iteration)
LogDue(seconds, iteration) == seconds > iteration

\* Mutant: the text is drawn before the image.
DrawCalls_TextFirst(app) ==
    << [op |-> "SDL_SetRenderDrawColor", tex |-> NULL, dst |-> NullPtr],
       [op |-> "SDL_RenderClear", tex |-> NULL, dst |-> NullPtr],
       [op |-> "SDL_RenderTexture", tex |-> app.messageTex, dst |-> Ptr(app.messageDest)],
       [op |-> "SDL_RenderTexture", tex |-> app.imageTex, dst |-> NullPtr],
       [op |-> "SDL_RenderPresent", tex |-> NULL, dst |-> NullPtr] >>

\* The draw calls of one SDL_AppIterate, in the order it makes them.
DrawCalls(app) ==
    << [op |-> "SDL_SetRenderDrawColor", tex |-> NULL, dst |-> NullPtr],
       [op |-> "SDL_RenderClear", tex |-> NULL, dst |-> NullPtr],
       [op |-> "SDL_RenderTexture", tex |-> app.imageTex, dst |-> NullPtr],
       [op |-> "SDL_RenderTexture", tex |-> app.messageTex, dst |-> Ptr(app.messageDest)],
       [op |-> "SDL_RenderPresent", tex |-> NULL, dst |-> NullPtr] >>

\* Mutant: the flag is not returned.
AppIterateReturn_Continue(app) == SDL_APP_CONTINUE

\* return app->app_quit;
AppIterateReturn(app) == app.app_quit

\* The destination rectangle of a draw; a null pointer is the whole target.
DestRect(dst) ==
    IF dst = NullPtr THEN [x |-> 0, y |-> 0, w |-> TargetW, h |-> 1] ELSE Deref(dst)

\* Whether texture t, drawn stretched to dst, puts an opaque pixel on target
\* pixel p.  A NULL texture draws nothing.
Covers(t, dst, p) ==
    LET r == DestRect(dst)
    IN  /\ t # NULL
        /\ r.w > 0
        /\ r.h > 0
        /\ p > r.x
        /\ p <= r.x + r.w
        /\ texMask[t][(((p - 1 - r.x) * Len(texMask[t])) \div r.w) + 1]

\* The renderer after one draw call: the painter's algorithm, no depth.
Draw(f, call) ==
    CASE call.op = "SDL_SetRenderDrawColor" ->
            [f EXCEPT !.color = "white"]
      [] call.op = "SDL_RenderClear" ->
            [f EXCEPT !.back = [p \in 1..TargetW |-> f.color]]
      [] call.op = "SDL_RenderTexture" ->
            [f EXCEPT !.back = [p \in 1..TargetW |->
                                  IF Covers(call.tex, call.dst, p)
                                  THEN call.tex ELSE f.back[p]]]
      [] call.op = "SDL_RenderPresent" ->
            [f EXCEPT !.front = f.back]

RECURSIVE Render(_, _)
Render(f, calls) ==
    IF calls = <<>> THEN f ELSE Render(Draw(f, Head(calls)), Tail(calls))

SDL_AppIterate ==
    LET app == Deref(appstate)
        seconds == RoundSeconds(ticks)
        due == LogDue(seconds, app.iteration)
    IN  /\ cout' = IF due THEN Append(cout, seconds) ELSE cout
        /\ appstate' = Ptr(IF due THEN [app EXCEPT !.iteration = @ + 1] ELSE app)
        /\ frame' = [Render(frame, DrawCalls(app)) EXCEPT !.calls = DrawCalls(app)]
        /\ iterResult' = AppIterateReturn(app)
        /\ paced' = (paced /\ sinceIter <= TicksPerSecond)
        /\ sinceIter' = 0
        /\ UNCHANGED <<eventResult, quitSeen, lastEvent>>
        /\ UNCHANGED <<acquired, relCount, subsys, ticks, initVars, quitVars>>

(***************************************************************************)
(* SDL_AppQuit.                                                            *)
(***************************************************************************)
\* Mutant: the window is never destroyed.
QuitCalls_NoWindow(app) ==
    (IF app # NullPtr
     THEN << [op |-> "SDL_DestroyRenderer", arg |-> Deref(app).renderer],
             [op |-> "delete", arg |-> "app"] >>
     ELSE <<>>)
    \o << [op |-> "TTF_Quit", arg |-> NULL],
          [op |-> "SDL_Log", arg |-> NULL],
          [op |-> "SDL_Quit", arg |-> NULL] >>

\* Mutant: the subsystems are shut down before the state is released.
QuitCalls_ShutdownFirst(app) ==
    << [op |-> "TTF_Quit", arg |-> NULL],
       [op |-> "SDL_Log", arg |-> NULL],
       [op |-> "SDL_Quit", arg |-> NULL] >>
    \o (IF app # NullPtr
        THEN << [op |-> "SDL_DestroyRenderer", arg |-> Deref(app).renderer],
                [op |-> "SDL_DestroyWindow", arg |-> Deref(app).window],
                [op |-> "delete", arg |-> "app"] >>
        ELSE <<>>)

\* The calls SDL_AppQuit makes, in order, for the pointer app it is given.
QuitCalls(app) ==
    (IF app # NullPtr
     THEN << [op |-> "SDL_DestroyRenderer", arg |-> Deref(app).renderer],
             [op |-> "SDL_DestroyWindow", arg |-> Deref(app).window],
             [op |-> "delete", arg |-> "app"] >>
     ELSE <<>>)
    \o << [op |-> "TTF_Quit", arg |-> NULL],
          [op |-> "SDL_Log", arg |-> NULL],
          [op |-> "SDL_Quit", arg |-> NULL] >>

\* The ledger after one teardown call.  SDL_DestroyRenderer also frees the
\* textures of the renderer that are still alive.
ReleaseBy(cnt, call) ==
    CASE call.op = "SDL_DestroyRenderer" ->
            [h \in Handles |->
                IF \/ h = call.arg
                   \/ call.arg # NULL /\ h \in Textures /\ h \in acquired /\ cnt[h] = 0
                THEN cnt[h] + 1 ELSE cnt[h]]
      [] call.op \in {"SDL_DestroyWindow", "delete"} -> Released(cnt, call.arg)
      [] OTHER -> cnt

RECURSIVE ReleaseAll(_, _)
ReleaseAll(cnt, calls) ==
    IF calls = <<>> THEN cnt ELSE ReleaseAll(ReleaseBy(cnt, Head(calls)), Tail(calls))

\* The subsystems a teardown call shuts down.
ShutBy(call) ==
    CASE call.op = "TTF_Quit" -> {"TTF"}
      [] call.op = "SDL_Quit" -> {"SDL"}
      [] OTHER -> {}

\* The process's exit result for the result the run loop ended with.
ExitResult(result) == IF result = SDL_APP_FAILURE THEN "failure" ELSE "success"

SDL_AppQuit(state, result) ==
    LET app == state
        calls == QuitCalls(app)
    IN  /\ quitCalls' = quitCalls + 1
        /\ quitArg' = [state |-> IF app = NullPtr THEN NULL ELSE "app", result |-> result]
        /\ teardown' = teardown \o [i \in 1..Len(calls) |-> calls[i].op]
        /\ relCount' = ReleaseAll(relCount, calls)
        /\ subsys' = subsys \ UNION {ShutBy(calls[i]) : i \in 1..Len(calls)}
        /\ appstate' = NullPtr
        /\ exitCode' = ExitResult(result)
        /\ pc' = "exited"
        /\ lastCall' = "Quit"
        /\ UNCHANGED <<rc, acquired, ticks, sinceIter, initVars, loopVars>>

(***************************************************************************)
(* The clock, and the run loop's steps.                                    *)
(***************************************************************************)
\* Time passes.  SDL_GetTicks() counts from SDL_Init and only SDL_AppIterate
\* reads it, so the clock is moved between the callbacks of the loop: the
\* time SDL_AppInit takes is time before the first SDL_AppIterate.
TickUpTo(max) ==
    /\ pc = "loop"
    /\ \E d \in TickSteps :
         /\ ticks + d <= max
         /\ ticks' = ticks + d
         /\ sinceIter' = IF sinceIter + d > TicksPerSecond
                          THEN TicksPerSecond + 1 ELSE sinceIter + d
    /\ UNCHANGED <<pc, rc, appstate, acquired, relCount, subsys, lastCall,
                   initVars, loopVars, quitVars>>

Tick == TickUpTo(MaxTicks)

DispatchEvent ==
    /\ pc = "loop"
    /\ \E e \in Events :
         /\ SDL_AppEvent(e)
         /\ RunLoopTakes("Event", eventResult')

Iterate ==
    /\ pc = "loop"
    /\ SDL_AppIterate
    /\ RunLoopTakes("Iterate", iterResult')

Quit ==
    /\ pc = "quit"
    /\ SDL_AppQuit(appstate, rc)

Next ==
    \/ SDL_AppInit
    \/ Tick
    \/ DispatchEvent
    \/ Iterate
    \/ Quit

Spec == Init /\ [][Next]_vars

\* The run loop under fair scheduling: it keeps calling SDL_AppIterate while
\* it loops, and it does call SDL_AppQuit once the loop has ended.
FairTick == TickUpTo(FairMaxTicks)

FairNext ==
    \/ SDL_AppInit
    \/ FairTick
    \/ DispatchEvent
    \/ Iterate
    \/ Quit

FairSpec == Init /\ [][FairNext]_vars /\ WF_vars(Iterate) /\ WF_vars(Quit)

(***************************************************************************)
(* A test harness: the callbacks called in any order and number after a    *)
(* successful SDL_AppInit, whatever they return, then SDL_AppQuit.         *)
(***************************************************************************)
HarnessTakes(callback, result) ==
    /\ rc' = result
    /\ lastCall' = callback
    /\ pc' = pc

HarnessEvent ==
    /\ pc = "loop"
    /\ \E e \in Events :
         /\ SDL_AppEvent(e)
         /\ HarnessTakes("Event", eventResult')

HarnessIterate ==
    /\ pc = "loop"
    /\ SDL_AppIterate
    /\ HarnessTakes("Iterate", iterResult')

HarnessQuit ==
    /\ pc \in {"loop", "quit"}
    /\ SDL_AppQuit(appstate, rc)

HarnessNext ==
    \/ SDL_AppInit
    \/ Tick
    \/ HarnessEvent
    \/ HarnessIterate
    \/ HarnessQuit

HarnessSpec == Init /\ [][HarnessNext]_vars


(***************************************************************************)
(* Properties.                                                             *)
(***************************************************************************)
KeyUpEscape == [type |-> "SDL_EVENT_KEY_UP", key |-> "SDLK_ESCAPE"]
MouseMotion == [type |-> "SDL_EVENT_MOUSE_MOTION", key |-> "none"]

\* C1: once SDL_AppEvent has handled a quit-signal event or a key-down of
\* Escape, app_quit is SDL_APP_SUCCESS, and it is still SDL_APP_SUCCESS after
\* any further Event and Iterate calls, for as long as the AppContext lives.
C1_QuitRequestLatches ==
    (quitSeen /\ appstate # NullPtr) => Deref(appstate).app_quit = SDL_APP_SUCCESS

\* C1's case: after the quit request another event was handled, then an
\* Iterate ran, and the flag is still success.
C1_Witness ==
    /\ quitSeen
    /\ appstate # NullPtr
    /\ lastEvent = MouseMotion
    /\ lastCall = "Iterate"
    /\ Deref(appstate).app_quit = SDL_APP_SUCCESS

\* C2: while no quit-signal event and no key-down of Escape has been
\* delivered, app_quit is SDL_APP_CONTINUE after every Event call and every
\* Event and Iterate call has returned SDL_APP_CONTINUE.
C2_OtherEventsIgnored ==
    ~quitSeen =>
        /\ appstate # NullPtr => Deref(appstate).app_quit = SDL_APP_CONTINUE
        /\ eventResult \in {NoResult, SDL_APP_CONTINUE}
        /\ iterResult \in {NoResult, SDL_APP_CONTINUE}

\* C2's case: a key-up of Escape was the last event and an Iterate after it
\* returned continue.
C2_Witness ==
    /\ ~quitSeen
    /\ lastEvent = KeyUpEscape
    /\ lastCall = "Iterate"
    /\ iterResult = SDL_APP_CONTINUE

\* The acquisition steps C3 names.
C3_Steps ==
    {"SDL_Init", "TTF_Init", "SDL_CreateWindow", "SDL_CreateRenderer",
     "TTF_OpenFont", "TTF_RenderText_Solid", "IMG_Load"}

\* C3: when one of the acquisition steps of SDL_AppInit has failed,
\* SDL_AppInit returns SDL_APP_FAILURE and no AppContext is constructed.
C3_InitAllOrNothing ==
    (initResult # NoResult /\ failed \cap C3_Steps # {}) =>
        /\ initResult = SDL_APP_FAILURE
        /\ "app" \notin acquired

\* The seconds 1, 2, ..., n in order.
UpTo(n) == [i \in 1..n |-> i]

\* C4, as amended: while every Iterate comes at most a second after the one
\* before (the first at most a second after start), the lines written are
\* exactly those for seconds 1 to round(t), t the time of the last Iterate:
\* the line for second k is written once, by the first Iterate from k - 0.5
\* seconds on, none twice and none skipped.
C4_OncePerRoundedSecond ==
    (paced /\ sinceIter <= TicksPerSecond) =>
        cout = UpTo(RoundSeconds(ticks - sinceIter))

\* C4's case: Iterate kept pace for 2.5 seconds and lines 1, 2 and 3 are out.
C4_Witness ==
    /\ paced
    /\ sinceIter = 0
    /\ ticks = 2500
    /\ cout = <<1, 2, 3>>

\* C4, as stated: while every Iterate comes at most a second after the one
\* before, there is exactly one line for each whole-second boundary that has
\* passed by the last Iterate (looked at after an SDL_AppInit in which no
\* call failed).
C4_OncePerWholeSecond ==
    (paced /\ sinceIter <= TicksPerSecond /\ failed = {}) =>
        cout = UpTo((ticks - sinceIter) \div TicksPerSecond)

\* The handles the AppContext owns.
OwnedHandles == {"renderer", "window", "messageTex", "imageTex"}

\* C5: once SDL_AppQuit has run with a state, every handle the state owned
\* has been released exactly once; once it has run with an absent state, it
\* has released no handle and has returned.
C5_QuitReleasesOwned ==
    quitCalls > 0 =>
        /\ pc = "exited"
        /\ IF quitArg.state # NULL
           THEN \A h \in OwnedHandles :
                    relCount[h] = IF h \in acquired THEN 1 ELSE 0
           ELSE \A h \in OwnedHandles \cup {"app"} : relCount[h] = 0

\* C5's case: SDL_AppQuit has run with a state that owned all four handles.
C5_Witness ==
    /\ quitCalls = 1
    /\ quitArg.state # NULL
    /\ OwnedHandles \subseteq acquired
    /\ \A h \in OwnedHandles : relCount[h] = 1

\* C6: SDL_AppEvent always returns continue; an Iterate that follows a quit
\* request returns success and ends the loop; SDL_AppQuit is invoked at most
\* once, with result success after a quit request; nothing runs after
\* SDL_AppQuit; and once a quit request is delivered the process eventually
\* exits with success.
C6_QuitPropagates ==
    /\ [](eventResult \in {NoResult, SDL_APP_CONTINUE})
    /\ []((quitSeen /\ lastCall = "Iterate") =>
              (iterResult = SDL_APP_SUCCESS /\ pc = "quit"))
    /\ [](quitCalls <= 1)
    /\ []((quitSeen /\ pc = "exited") =>
              /\ quitCalls = 1
              /\ quitArg.result = SDL_APP_SUCCESS
              /\ exitCode = "success")
    /\ [][quitCalls > 0 => UNCHANGED vars]_vars
    /\ (quitSeen ~> (pc = "exited" /\ exitCode = "success"))

\* C6's case: a quit request was delivered and the process has exited.
C6_Witness ==
    /\ quitSeen
    /\ pc = "exited"
    /\ quitCalls = 1
    /\ exitCode = "success"

\* C7: when SDL_AppInit has returned SDL_APP_FAILURE, a message box was shown
\* and an error was logged.
C7_FailureShownAndLogged ==
    initResult = SDL_APP_FAILURE => (msgBoxes >= 1 /\ errLogs >= 1)

\* The handles SDL_AppInit acquires from the library.
InitHandles == Handles \ {"app"}

\* C8: no handle is released twice, and when the process has exited every
\* handle SDL_AppInit acquired has been released exactly once.
C8_NoHandleLeft ==
    /\ \A h \in InitHandles : relCount[h] <= 1
    /\ pc = "exited" => \A h \in InitHandles \cap acquired : relCount[h] = 1

\* The text texture has an opaque pixel at target pixel p: the text lies at
\* the origin in its own size.
TextAt(p) ==
    /\ locals.messageTex # NULL
    /\ p <= Len(texMask["messageTex"])
    /\ texMask["messageTex"][p]

\* The image, stretched over the target, has an opaque pixel at target pixel p.
ImageAt(p) == Covers(locals.tex, NullPtr, p)

\* C9: every Iterate issues set-colour, clear, image over the whole target,
\* text at its rectangle, present, in this order; in the presented frame a
\* pixel the text covers is the text's, another the image covers is the
\* image's, and the rest is white.
C9_TextOverImage ==
    frame.calls # <<>> =>
        /\ [i \in 1..Len(frame.calls) |-> frame.calls[i].op] =
              <<"SDL_SetRenderDrawColor", "SDL_RenderClear", "SDL_RenderTexture",
                "SDL_RenderTexture", "SDL_RenderPresent">>
        /\ frame.calls[3].tex = locals.tex
        /\ frame.calls[3].dst = NullPtr
        /\ frame.calls[4].tex = locals.messageTex
        /\ \A p \in 1..TargetW :
              frame.front[p] = IF TextAt(p) THEN "messageTex"
                               ELSE IF ImageAt(p) THEN "imageTex"
                               ELSE "white"

\* C9's case: a frame was presented in which text and image overlap.
C9_Witness ==
    /\ frame.calls # <<>>
    /\ \E p \in 1..TargetW :
          /\ TextAt(p)
          /\ ImageAt(p)
          /\ frame.front[p] = "messageTex"

\* Call a comes before call b in SDL_AppQuit's calls, each made once.
Before(a, b) ==
    /\ Cardinality({i \in 1..Len(teardown) : teardown[i] = a}) = 1
    /\ Cardinality({i \in 1..Len(teardown) : teardown[i] = b}) = 1
    /\ \E i, j \in 1..Len(teardown) : i < j /\ teardown[i] = a /\ teardown[j] = b

\* C10: SDL_AppQuit, given a state, destroys the renderer, then the window,
\* then frees the state, then shuts down the text subsystem, then the
\* windowing subsystem; given no state it makes no release call and shuts
\* down the two subsystems in the same order.
C10_TeardownOrder ==
    quitCalls > 0 =>
        /\ Before("TTF_Quit", "SDL_Quit")
        /\ subsys = {}
        /\ IF quitArg.state # NULL
           THEN /\ Before("SDL_DestroyRenderer", "SDL_DestroyWindow")
                /\ Before("SDL_DestroyWindow", "delete")
                /\ Before("delete", "TTF_Quit")
           ELSE \A i \in 1..Len(teardown) :
                    teardown[i] \notin {"SDL_DestroyRenderer", "SDL_DestroyWindow", "delete"}

\* C10's case: SDL_AppQuit has torn down an existing state.
C10_Witness ==
    /\ quitCalls = 1
    /\ quitArg.state # NULL
    /\ Len(teardown) = 6
    /\ teardown[1] = "SDL_DestroyRenderer"

====
